---- MODULE Spec2Model ----
(***************************************************************************)
(* cmark-syntax: the highlighting engine (highlight, write_escaped, the    *)
(* Kind-to-tag table) and the block interceptor (SyntaxPreprocessor::next) *)
(* of src/src/lib.rs.  Strings are sequences of bytes; a byte is a         *)
(* one-element string, and "xC3" stands for one non-ASCII byte.            *)
(***************************************************************************)
EXTENDS Integers, Sequences, FiniteSets, TLC

VARIABLES
    source,     \* highlight: the `source` argument
    lexed,      \* the tokens Token::lexer(source) has yielded, with their spans
    classify,   \* Token::kind, as far as it has been evaluated (window -> Kind)
    open,       \* highlight: `open`
    last,       \* highlight: `last`
    tokens,     \* highlight: `tokens`, the 2-slot window
    buf,        \* highlight: `buf`
    pc,         \* position of the running call
    run,        \* 1: first call of highlight on source, 2: the call repeated
    pos,        \* how many tokens of `lexed` the current call has pulled
    firstOut,   \* what the first call of highlight left in buf
    part,       \* write_escaped: the `part` argument
    s,          \* write_escaped: the buffer `s`
    doc,        \* the events the upstream iterator was created over
    parent,     \* SyntaxPreprocessor.parent: the events it has not yielded yet
    yielded,    \* the events SyntaxPreprocessor::next has returned, in order
    ret,        \* the return statement the latest call of next left through
    feature     \* whether the build has cfg(feature = "latex2mathml")

vars == <<source, lexed, classify, open, last, tokens, buf, pc, run, pos,
          firstOut, part, s, doc, parent, yielded, ret, feature>>

preVars == <<doc, parent, yielded, ret, feature>>

hlVars == <<source, lexed, classify, open, last, tokens, buf, run, pos, firstOut>>

-----------------------------------------------------------------------------
(* Bounds of the model *)

MaxLen == 3
MaxPart == 3
MaxBuf == 1
MaxEvents == 4
MaxLong == 6

\* Bytes a source text is drawn from: the four escaped characters, an
\* ordinary ASCII byte, and the bytes an entity is spelled with.
Bytes == {"a", "<", ">", "&", "\"", ";", "xC3"}

\* Bytes of the texts highlight is run on under every classification
SourceBytes == {"a"}

RECURSIVE StringsUpTo(_, _)
StringsUpTo(alphabet, n) ==
    IF n = 0 THEN {<<>>}
    ELSE LET shorter == StringsUpTo(alphabet, n - 1)
         IN  shorter \cup {Append(t, c) : t \in shorter, c \in alphabet}

\* Bytes of the texts highlight escapes under a fixed classifier
TextBytes == {"a", "<", ">", "&", "\""}

\* part[from..to) of a Rust string slice, 0-based, end exclusive
Slice(str, from, to) == SubSeq(str, from + 1, to)

-----------------------------------------------------------------------------
(* Kind and HIGHLIGHT_TAG *)

Kind == {"None", "Glyph", "Literal", "Identifier", "SpecialIdentifier",
         "StrongIdentifier", "Keyword", "Comment"}

\* `kind as usize`: the discriminant, in declaration order
KindIndex(kind) ==
    CASE kind = "None" -> 0
      [] kind = "Glyph" -> 1
      [] kind = "Literal" -> 2
      [] kind = "Identifier" -> 3
      [] kind = "SpecialIdentifier" -> 4
      [] kind = "StrongIdentifier" -> 5
      [] kind = "Keyword" -> 6
      [] kind = "Comment" -> 7

\* Option::None of the table
NoTag == <<>>

\* Faulty variant: Identifier is given the tag of Glyph
HIGHLIGHT_TAG_Shared ==
    [i \in 0..7 |->
        CASE i = KindIndex("Glyph") -> <<"u">>
          [] i = KindIndex("Literal") -> <<"s", "p", "a", "n">>
          [] i = KindIndex("Identifier") -> <<"u">>
          [] i = KindIndex("SpecialIdentifier") -> <<"e", "m">>
          [] i = KindIndex("StrongIdentifier") -> <<"s", "t", "r", "o", "n", "g">>
          [] i = KindIndex("Keyword") -> <<"b">>
          [] i = KindIndex("Comment") -> <<"i">>
          [] OTHER -> NoTag]

HIGHLIGHT_TAG ==
    [i \in 0..7 |->
        CASE i = KindIndex("Glyph") -> <<"u">>
          [] i = KindIndex("Literal") -> <<"s", "p", "a", "n">>
          [] i = KindIndex("Identifier") -> <<"v", "a", "r">>
          [] i = KindIndex("SpecialIdentifier") -> <<"e", "m">>
          [] i = KindIndex("StrongIdentifier") -> <<"s", "t", "r", "o", "n", "g">>
          [] i = KindIndex("Keyword") -> <<"b">>
          [] i = KindIndex("Comment") -> <<"i">>
          [] OTHER -> NoTag]

TagOf(kind) == HIGHLIGHT_TAG[KindIndex(kind)]

-----------------------------------------------------------------------------
(* write_escaped *)

\* Faulty variant: the double quote is not replaced
ReplacementNoQuote(byte) ==
    CASE byte = "<" -> <<"&", "l", "t", ";">>
      [] byte = ">" -> <<"&", "g", "t", ";">>
      [] byte = "&" -> <<"&", "a", "m", "p", ";">>
      [] OTHER -> <<>>

Replacement(byte) ==
    CASE byte = "<" -> <<"&", "l", "t", ";">>
      [] byte = ">" -> <<"&", "g", "t", ";">>
      [] byte = "&" -> <<"&", "a", "m", "p", ";">>
      [] byte = "\"" -> <<"&", "q", "u", "o", "t", ";">>
      [] OTHER -> <<>>

\* Faulty variant: after a replacement the next slice starts at the replaced byte
RECURSIVE EscapeLoopFromIdx(_, _, _, _)
EscapeLoopFromIdx(str, prt, start, idx) ==
    IF idx >= Len(prt) THEN str \o Slice(prt, start, Len(prt))
    ELSE IF Replacement(prt[idx + 1]) = <<>>
         THEN EscapeLoopFromIdx(str, prt, start, idx + 1)
         ELSE EscapeLoopFromIdx(str \o Slice(prt, start, idx) \o Replacement(prt[idx + 1]),
                                prt, idx, idx + 1)

\* The loop of write_escaped from byte idx on, with `start` as the loop holds it
RECURSIVE EscapeLoop(_, _, _, _)
EscapeLoop(str, prt, start, idx) ==
    IF idx >= Len(prt) THEN str \o Slice(prt, start, Len(prt))
    ELSE IF Replacement(prt[idx + 1]) = <<>>
         THEN EscapeLoop(str, prt, start, idx + 1)
         ELSE EscapeLoop(str \o Slice(prt, start, idx) \o Replacement(prt[idx + 1]),
                         prt, idx + 1, idx + 1)

write_escaped(str, prt) == EscapeLoop(str, prt, 0, 0)

-----------------------------------------------------------------------------
(* highlight *)

\* Values of a language's token type; ERROR is Token::ERROR
ERROR == "ERROR"
Token == {ERROR, "T1"}

Windows == Token \X Token

\* tokens = [Token::ERROR; 2]
InitWindow == <<ERROR, ERROR>>

\* if tokens[1] != Token::ERROR { tokens[0] = tokens[1]; }  tokens[1] = token;
ShiftWindow(w, token) ==
    IF w[2] # ERROR THEN <<w[2], token>> ELSE <<w[1], token>>

OpenTag(kind) ==
    IF TagOf(kind) # NoTag THEN <<"<">> \o TagOf(kind) \o <<">">> ELSE <<>>

CloseTag(kind) ==
    IF TagOf(kind) # NoTag THEN <<"<", "/">> \o TagOf(kind) \o <<">">> ELSE <<>>

\* Faulty variant: the tag of the previous run is not closed on a change of kind
EmitNoClose(src, st, kind, span) ==
    IF st.open # kind
    THEN LET trivia == write_escaped(st.buf, Slice(src, st.last, span.start))
             opened == trivia \o OpenTag(kind)
         IN  [open |-> kind,
              last |-> span.end,
              buf  |-> write_escaped(opened, Slice(src, span.start, span.end))]
    ELSE [open |-> st.open,
          last |-> span.end,
          buf  |-> write_escaped(st.buf, Slice(src, st.last, span.end))]

\* Faulty variant: on a change of kind the trivia before the token is not written
EmitDropTrivia(src, st, kind, span) ==
    IF st.open # kind
    THEN LET closed == st.buf \o CloseTag(st.open)
             opened == closed \o OpenTag(kind)
         IN  [open |-> kind,
              last |-> span.end,
              buf  |-> write_escaped(opened, Slice(src, span.start, span.end))]
    ELSE [open |-> st.open,
          last |-> span.end,
          buf  |-> write_escaped(st.buf, Slice(src, st.last, span.end))]

\* Faulty variant: on a change of kind the trivia is written before the close tag
EmitTriviaInside(src, st, kind, span) ==
    IF st.open # kind
    THEN LET trivia == write_escaped(st.buf, Slice(src, st.last, span.start))
             closed == trivia \o CloseTag(st.open)
             opened == closed \o OpenTag(kind)
         IN  [open |-> kind,
              last |-> span.end,
              buf  |-> write_escaped(opened, Slice(src, span.start, span.end))]
    ELSE [open |-> st.open,
          last |-> span.end,
          buf  |-> write_escaped(st.buf, Slice(src, st.last, span.end))]

\* Faulty variant: on a change of kind the new tag is opened before the trivia
EmitOpenFirst(src, st, kind, span) ==
    IF st.open # kind
    THEN LET closed == st.buf \o CloseTag(st.open)
             opened == closed \o OpenTag(kind)
             trivia == write_escaped(opened, Slice(src, st.last, span.start))
         IN  [open |-> kind,
              last |-> span.end,
              buf  |-> write_escaped(trivia, Slice(src, span.start, span.end))]
    ELSE [open |-> st.open,
          last |-> span.end,
          buf  |-> write_escaped(st.buf, Slice(src, st.last, span.end))]

\* Faulty variant: the cursor is set one byte behind the end of the token
EmitCursorPastEnd(src, st, kind, span) ==
    IF st.open # kind
    THEN LET closed == st.buf \o CloseTag(st.open)
             trivia == write_escaped(closed, Slice(src, st.last, span.start))
             opened == trivia \o OpenTag(kind)
         IN  [open |-> kind,
              last |-> span.end + 1,
              buf  |-> write_escaped(opened, Slice(src, span.start, span.end))]
    ELSE [open |-> st.open,
          last |-> span.end + 1,
          buf  |-> write_escaped(st.buf, Slice(src, st.last, span.end))]

\* Faulty variant: every token is handled as a change of kind
EmitAlwaysReopen(src, st, kind, span) ==
    LET closed == st.buf \o CloseTag(st.open)
        trivia == write_escaped(closed, Slice(src, st.last, span.start))
        opened == trivia \o OpenTag(kind)
    IN  [open |-> kind,
         last |-> span.end,
         buf  |-> write_escaped(opened, Slice(src, span.start, span.end))]

\* The body of the loop after `kind` is computed: st is [open, last, buf],
\* span the token's lex.span()
Emit(src, st, kind, span) ==
    IF st.open # kind
    THEN LET closed == st.buf \o CloseTag(st.open)
             trivia == write_escaped(closed, Slice(src, st.last, span.start))
             opened == trivia \o OpenTag(kind)
         IN  [open |-> kind,
              last |-> span.end,
              buf  |-> write_escaped(opened, Slice(src, span.start, span.end))]
    ELSE [open |-> st.open,
          last |-> span.end,
          buf  |-> write_escaped(st.buf, Slice(src, st.last, span.end))]

\* Close tail tag
CloseTail(st) == st.buf \o CloseTag(st.open)

\* The spans lex.next() can yield after a token that ended at `from`
NextSpans(src, from) ==
    {[start |-> a, end |-> b] : a \in from..Len(src), b \in from..Len(src)}

LexerYields(src, from) ==
    {[tok |-> t, start |-> sp.start, end |-> sp.end] :
        t \in Token, sp \in {x \in NextSpans(src, from) : x.start < x.end}}

Unset == "unset"

\* Where the lexer stands: the end of the span of the token it yielded last
LexEnd == IF pos = 0 THEN 0 ELSE lexed[pos].end

\* Faulty variant: the open kind of the previous call is kept
EnterHighlightOpenKept ==
    /\ open' = open
    /\ last' = 0
    /\ tokens' = InitWindow
    /\ buf' = <<>>
    /\ pos' = 0

\* Entry of highlight: open = Kind::None, last = 0, tokens = [ERROR; 2]
EnterHighlight ==
    /\ open' = "None"
    /\ last' = 0
    /\ tokens' = InitWindow
    /\ buf' = <<>>
    /\ pos' = 0

\* One turn of `while let Some(token) = lex.next()`
HighlightToken ==
    /\ pc = "loop"
    /\ \E t \in (IF pos < Len(lexed) THEN {lexed[pos + 1]}
                 ELSE IF run = 1 THEN LexerYields(source, LexEnd) ELSE {}) :
         LET w == ShiftWindow(tokens, t.tok)
         IN  \E kind \in (IF classify[w] = Unset THEN Kind ELSE {classify[w]}) :
               LET st == Emit(source, [open |-> open, last |-> last, buf |-> buf],
                              kind, [start |-> t.start, end |-> t.end])
               IN  /\ lexed' = (IF pos < Len(lexed) THEN lexed ELSE Append(lexed, t))
                   /\ classify' = [classify EXCEPT ![w] = kind]
                   /\ tokens' = w
                   /\ open' = st.open
                   /\ last' = st.last
                   /\ buf' = st.buf
                   /\ pos' = pos + 1
    /\ UNCHANGED <<source, pc, run, firstOut, part, s, preVars>>

\* Faulty variant: the loop is never left
HighlightReturnNever ==
    /\ pc = "loop"
    /\ FALSE
    /\ UNCHANGED vars

\* lex.next() is None: the loop ends and the tail tag is closed
HighlightReturn ==
    /\ pc = "loop"
    /\ pos = Len(lexed)
    /\ buf' = CloseTail([open |-> open, last |-> last, buf |-> buf])
    /\ pc' = "done"
    /\ UNCHANGED <<source, lexed, classify, open, last, tokens, run, pos,
                   firstOut, part, s, preVars>>

\* highlight is called again on the same source, with an empty buffer
HighlightAgain ==
    /\ pc = "done"
    /\ run = 1
    /\ run' = 2
    /\ firstOut' = buf
    /\ EnterHighlight
    /\ pc' = "loop"
    /\ UNCHANGED <<source, lexed, classify, part, s, preVars>>

\* No call of write_escaped alone, no preprocessor
EscIdle == part = <<>> /\ s = <<>>
PreIdle ==
    doc = <<>> /\ parent = <<>> /\ yielded = <<>> /\ ret = "none" /\ feature = FALSE

HighlightEntered(sources) ==
    /\ source \in sources
    /\ lexed = <<>>
    /\ classify = [w \in Windows |-> Unset]
    /\ open = "None"
    /\ last = 0
    /\ tokens = InitWindow
    /\ buf = <<>>
    /\ pos = 0
    /\ pc = "loop"
    /\ run = 1
    /\ firstOut = <<>>

InitHL == HighlightEntered(StringsUpTo(SourceBytes, MaxLen)) /\ EscIdle /\ PreIdle

NextHL == HighlightToken \/ HighlightReturn \/ HighlightAgain

SpecHL == InitHL /\ [][NextHL]_vars

\* highlight over texts of all the escaped bytes, under two classifications
\* fixed beforehand
TextClassifiers ==
    {[w \in Windows |-> IF w[2] = ERROR THEN "None" ELSE "Keyword"],
     [w \in Windows |-> IF w[2] = ERROR THEN "Comment"
                        ELSE IF w[1] = ERROR THEN "Literal" ELSE "StrongIdentifier"]}

InitText ==
    /\ source \in StringsUpTo(TextBytes, MaxLen)
    /\ lexed = <<>>
    /\ classify \in TextClassifiers
    /\ open = "None"
    /\ last = 0
    /\ tokens = InitWindow
    /\ buf = <<>>
    /\ pos = 0
    /\ pc = "loop"
    /\ run = 1
    /\ firstOut = <<>>
    /\ EscIdle
    /\ PreIdle

NextText == HighlightToken \/ HighlightReturn

SpecText == InitText /\ [][NextText]_vars

\* write_escaped called on its own (the fallback of an unrecognized tag)
WriteEscapedCall ==
    /\ pc = "escape"
    /\ s' = write_escaped(s, part)
    /\ pc' = "escaped"
    /\ UNCHANGED <<part, hlVars, preVars>>

HighlightIdle ==
    /\ source = <<>>
    /\ lexed = <<>>
    /\ classify = [w \in Windows |-> Unset]
    /\ open = "None"
    /\ last = 0
    /\ tokens = InitWindow
    /\ buf = <<>>
    /\ pos = 0
    /\ run = 1
    /\ firstOut = <<>>

InitEsc ==
    /\ part \in StringsUpTo(Bytes, MaxPart)
    /\ s \in StringsUpTo(Bytes, MaxBuf)
    /\ pc = "escape"
    /\ HighlightIdle
    /\ PreIdle

NextEsc == WriteEscapedCall

SpecEsc == InitEsc /\ [][NextEsc]_vars

-----------------------------------------------------------------------------
(* The language definitions of src/src/languages.rs.  Their tokenizers are  *)
(* not part of the sources at hand; what stands here is the Language        *)
(* Contract of the specification, 4.4: a tokenizer over the source that is  *)
(* a function of the source alone, and a classification of the window.      *)

Languages == {"Rust", "JavaScript", "Toml", "Sh"}

\* Stand-in tokenizer: a space is skipped, the byte "a" is a word token and
\* any other byte is the error token.
RECURSIVE Lexer(_, _, _)
Lexer(language, src, from) ==
    IF from >= Len(src) THEN <<>>
    ELSE IF src[from + 1] = " " THEN Lexer(language, src, from + 1)
    ELSE <<[tok |-> (IF src[from + 1] = "a" THEN "T1" ELSE ERROR),
            start |-> from, end |-> from + 1]>>
         \o Lexer(language, src, from + 1)

\* Stand-in Highlight::kind: a word after a word is a declared name, another
\* word is the language's keyword or literal kind, the error token is None.
LanguageKind(language, w) ==
    IF w[2] = ERROR THEN "None"
    ELSE IF w[1] = "T1" THEN "StrongIdentifier"
    ELSE IF language \in {"Rust", "JavaScript"} THEN "Keyword"
    ELSE "Literal"

\* highlight::<Token>(source, buf) run to its end over the tokens toks[i..]
RECURSIVE HighlightFrom(_, _, _, _, _, _)
HighlightFrom(language, src, toks, i, w, st) ==
    IF i > Len(toks) THEN CloseTail(st)
    ELSE LET shifted == ShiftWindow(w, toks[i].tok)
         IN  HighlightFrom(language, src, toks, i + 1, shifted,
                 Emit(src, st, LanguageKind(language, shifted),
                      [start |-> toks[i].start, end |-> toks[i].end]))

highlight(language, src, buffer) ==
    HighlightFrom(language, src, Lexer(language, src, 0), 1, InitWindow,
                  [open |-> "None", last |-> 0, buf |-> buffer])

-----------------------------------------------------------------------------
(* SyntaxPreprocessor *)

Str_rust == <<"r", "u", "s", "t">>
Str_rs == <<"r", "s">>
Str_js == <<"j", "s">>
Str_javascript == <<"j", "a", "v", "a", "s", "c", "r", "i", "p", "t">>
Str_toml == <<"t", "o", "m", "l">>
Str_sh == <<"s", "h">>
Str_shell == <<"s", "h", "e", "l", "l">>
Str_bash == <<"b", "a", "s", "h">>
Str_math == <<"m", "a", "t", "h">>
Str_mathblock == <<"m", "a", "t", "h", "b", "l", "o", "c", "k">>

\* Event::Start(Tag::CodeBlock(CodeBlockKind::Fenced(lang)))
StartFenced(lang) == [type |-> "StartFenced", lang |-> lang, text |-> <<>>]
\* Event::Start(Tag::CodeBlock(CodeBlockKind::Indented))
StartIndented == [type |-> "StartIndented", lang |-> <<>>, text |-> <<>>]
\* Event::End(Tag::CodeBlock(_))
EndCodeBlock == [type |-> "EndCodeBlock", lang |-> <<>>, text |-> <<>>]
\* Event::Text(text)
Text(text) == [type |-> "Text", lang |-> <<>>, text |-> text]
\* Event::Html(html)
Html(html) == [type |-> "Html", lang |-> <<>>, text |-> html]
\* Any event next does not inspect, such as Event::Rule
Rule == [type |-> "Rule", lang |-> <<>>, text |-> <<>>]
\* Option::None
NONE == [type |-> "None", lang |-> <<>>, text |-> <<>>]

\* I::next of a finite upstream: the item, and the iterator after the pull
Pull(p) ==
    IF p = <<>> THEN [item |-> NONE, rest |-> <<>>]
    ELSE [item |-> Head(p), rest |-> Tail(p)]

\* Faulty variant: the second pull is made only when the first gave a text
NextEventsLazy(p) ==
    LET a == Pull(p)
        b == Pull(a.rest)
    IN  IF a.item.type = "Text" THEN [a |-> a.item, b |-> b.item, rest |-> b.rest]
        ELSE [a |-> a.item, b |-> NONE, rest |-> a.rest]

\* Faulty variant: the upstream is pulled once more than the two events looked at
NextEventsSkip(p) ==
    LET a == Pull(p)
        b == Pull(a.rest)
    IN  [a |-> a.item, b |-> b.item, rest |-> Pull(b.rest).rest]

\* let next_events = (self.parent.next(), self.parent.next());
NextEvents(p) ==
    LET a == Pull(p)
        b == Pull(a.rest)
    IN  [a |-> a.item, b |-> b.item, rest |-> b.rest]

\* format!("{:#?}", event): the pretty-printed value, piece by piece
Debug(e) ==
    IF e = NONE THEN <<"None">>
    ELSE <<"Some(", e.type, "(">> \o e.lang \o e.text \o <<"))">>

\* format!("Unexpected events {:#?}", next_events)
UnexpectedEvents(a, b) ==
    <<"Unexpected events ", "(">> \o Debug(a) \o <<",">> \o Debug(b) \o <<")">>

\* Whether the crate is built with the feature "latex2mathml"
FeatureLatex2mathml == feature

\* latex2mathml::latex_to_mathml(code, style).unwrap_or_else(|e| e.to_string()),
\* a function of the external crate
LatexToMathml(code, style) == <<"<", "m", "a", "t", "h", " ", style, ">">> \o code

PreCodeOpen ==
    <<"<", "p", "r", "e", ">", "<", "c", "o", "d", "e", " ",
      "c", "l", "a", "s", "s", "=", "\"",
      "l", "a", "n", "g", "u", "a", "g", "e", "-">>

PreCodeClose ==
    <<"<", "/", "c", "o", "d", "e", ">", "<", "/", "p", "r", "e", ">">>

\* Faulty variant: the tag Rust selects the Rust tokenizer too
DispatchAnyCase(lang, code, html) ==
    CASE lang \in {Str_rust, Str_rs, <<"R", "u", "s", "t">>} -> highlight("Rust", code, html)
      [] lang \in {Str_js, Str_javascript} -> highlight("JavaScript", code, html)
      [] lang = Str_toml -> highlight("Toml", code, html)
      [] lang \in {Str_sh, Str_shell, Str_bash} -> highlight("Sh", code, html)
      [] OTHER -> write_escaped(html, code)

\* match lang.as_ref() { ... }: the html buffer after the arm taken
Dispatch(lang, code, html) ==
    CASE lang \in {Str_rust, Str_rs} -> highlight("Rust", code, html)
      [] lang \in {Str_js, Str_javascript} -> highlight("JavaScript", code, html)
      [] lang = Str_toml -> highlight("Toml", code, html)
      [] lang \in {Str_sh, Str_shell, Str_bash} -> highlight("Sh", code, html)
      [] OTHER -> write_escaped(html, code)

\* Faulty variant: the tag is escaped on its way into the class attribute
BlockHtmlEscapedTag(lang, code) ==
    IF FeatureLatex2mathml /\ lang = Str_math THEN LatexToMathml(code, "Inline")
    ELSE IF FeatureLatex2mathml /\ lang = Str_mathblock
         THEN LatexToMathml(code, "Block")
    ELSE Dispatch(lang, code, write_escaped(PreCodeOpen, lang) \o <<"\"", ">">>)
             \o PreCodeClose

\* The payload of the event next returns for the block (lang, code)
BlockHtml(lang, code) ==
    IF FeatureLatex2mathml /\ lang = Str_math THEN LatexToMathml(code, "Inline")
    ELSE IF FeatureLatex2mathml /\ lang = Str_mathblock
         THEN LatexToMathml(code, "Block")
    ELSE Dispatch(lang, code, PreCodeOpen \o lang \o <<"\"", ">">>) \o PreCodeClose

\* Faulty variant: any code-block start is taken for a fenced one
IsCodeBlockStart(e) == e.type \in {"StartFenced", "StartIndented"}

\* The pattern Event::Start(Tag::CodeBlock(CodeBlockKind::Fenced(lang)))
IsFencedStart(e) == e.type = "StartFenced"

\* Faulty variant: the two events after a fenced start are pulled with ?, so
\* that the call ends the sequence when either is missing
SyntaxPreprocessorNextTry(p) ==
    LET first == Pull(p)
    IN  IF first.item = NONE
        THEN [ret |-> "end", item |-> NONE, rest |-> first.rest]
        ELSE IF ~IsFencedStart(first.item)
        THEN [ret |-> "passthrough", item |-> first.item, rest |-> first.rest]
        ELSE LET next_events == NextEvents(first.rest)
             IN  IF next_events.a = NONE \/ next_events.b = NONE
                 THEN [ret |-> "end", item |-> NONE, rest |-> next_events.rest]
                 ELSE IF next_events.a.type = "Text" /\ next_events.b.type = "EndCodeBlock"
                 THEN [ret |-> "block",
                       item |-> Html(BlockHtml(first.item.lang, next_events.a.text)),
                       rest |-> next_events.rest]
                 ELSE [ret |-> "diagnostic",
                       item |-> Text(UnexpectedEvents(next_events.a, next_events.b)),
                       rest |-> next_events.rest]

\* SyntaxPreprocessor::next on the upstream p: the return statement taken,
\* the value returned and the upstream afterwards
SyntaxPreprocessorNext(p) ==
    LET first == Pull(p)
    IN  IF first.item = NONE
        THEN [ret |-> "end", item |-> NONE, rest |-> first.rest]
        ELSE IF ~IsFencedStart(first.item)
        THEN [ret |-> "passthrough", item |-> first.item, rest |-> first.rest]
        ELSE LET next_events == NextEvents(first.rest)
             IN  IF next_events.a.type = "Text" /\ next_events.b.type = "EndCodeBlock"
                 THEN [ret |-> "block",
                       item |-> Html(BlockHtml(first.item.lang, next_events.a.text)),
                       rest |-> next_events.rest]
                 ELSE [ret |-> "diagnostic",
                       item |-> Text(UnexpectedEvents(next_events.a, next_events.b)),
                       rest |-> next_events.rest]

\* Faulty variant: the html buffer of the previous block is not dropped
PreprocessorNextStaleHtml ==
    /\ pc = "events"
    /\ LET call == SyntaxPreprocessorNext(parent)
           earlier == SelectSeq(yielded, LAMBDA e : e.type = "Html")
           item == IF call.ret = "block" /\ earlier # <<>>
                   THEN Html(earlier[Len(earlier)].text \o call.item.text)
                   ELSE call.item
       IN  /\ parent' = call.rest
           /\ ret' = call.ret
           /\ yielded' = (IF item = NONE THEN yielded ELSE Append(yielded, item))
    /\ UNCHANGED <<doc, feature, pc, part, s, hlVars>>

\* One call of next by the consumer of the preprocessor
PreprocessorNext ==
    /\ pc = "events"
    /\ LET call == SyntaxPreprocessorNext(parent)
       IN  /\ parent' = call.rest
           /\ ret' = call.ret
           /\ yielded' = (IF call.item = NONE THEN yielded
                          ELSE Append(yielded, call.item))
    /\ UNCHANGED <<doc, feature, pc, part, s, hlVars>>

\* Language tags of the fenced blocks of the documents
Langs ==
    {Str_rust, Str_rs, Str_js, Str_javascript, Str_toml, Str_sh, Str_shell,
     Str_bash, Str_math, Str_mathblock,
     <<"R", "u", "s", "t">>, <<"c">>, <<>>, <<"a", "\"", "<">>}

\* Code texts of the documents
Codes == {<<"a", "<">>, <<"a", " ", "a", "\"", " ">>}

\* The events of a document whose fenced blocks carry lang and whose texts are code
EventsOf(lang, code) ==
    {Rule, StartIndented, EndCodeBlock, Text(code), StartFenced(lang)}

InitPre ==
    /\ \E lang \in Langs, code \in Codes :
         doc \in StringsUpTo(EventsOf(lang, code), MaxEvents)
    /\ parent = doc
    /\ yielded = <<>>
    /\ ret = "none"
    /\ feature = FALSE
    /\ pc = "events"
    /\ HighlightIdle
    /\ EscIdle

NextPre == PreprocessorNext

SpecPre == InitPre /\ [][NextPre]_vars

\* Longer documents, over one recognized and one unrecognized tag and one code text
LongLangs == {Str_rust, <<"c">>}

LongCode == <<"a", "<", "a">>

InitLong ==
    /\ \E lang \in LongLangs :
         doc \in StringsUpTo({Rule, EndCodeBlock, Text(LongCode), StartFenced(lang)},
                             MaxLong)
    /\ parent = doc
    /\ yielded = <<>>
    /\ ret = "none"
    /\ feature = FALSE
    /\ pc = "events"
    /\ HighlightIdle
    /\ EscIdle

SpecLong == InitLong /\ [][NextPre]_vars

\* Documents under either build of the crate, without and with latex2mathml
BuildLangs == {Str_rust, Str_math, Str_mathblock, <<"a", "\"", "<">>}

InitBuild ==
    /\ feature \in BOOLEAN
    /\ \E lang \in BuildLangs :
         doc \in StringsUpTo({EndCodeBlock, Text(LongCode), StartFenced(lang)},
                             MaxEvents)
    /\ parent = doc
    /\ yielded = <<>>
    /\ ret = "none"
    /\ pc = "events"
    /\ HighlightIdle
    /\ EscIdle

SpecBuild == InitBuild /\ [][NextPre]_vars

\* A call of highlight or a preprocessor over a document.  highlight runs to
\* its end without suspension: a call in its loop takes its next iteration or
\* its exit.
InitTerm == InitHL \/ InitPre

NextTerm == NextHL \/ NextPre

SpecTerm == InitTerm /\ [][NextTerm]_vars /\ WF_vars(HighlightToken \/ HighlightReturn)

-----------------------------------------------------------------------------
(* Reading an output back: the markup and the entities of a buffer *)

TagNames ==
    {<<"u">>, <<"s", "p", "a", "n">>, <<"v", "a", "r">>, <<"e", "m">>,
     <<"s", "t", "r", "o", "n", "g">>, <<"b">>, <<"i">>}

Entities ==
    {[of |-> "<", as |-> <<"&", "l", "t", ";">>],
     [of |-> ">", as |-> <<"&", "g", "t", ";">>],
     [of |-> "&", as |-> <<"&", "a", "m", "p", ";">>],
     [of |-> "\"", as |-> <<"&", "q", "u", "o", "t", ";">>]}

\* The first position from i on that holds byte c, 0 when there is none
RECURSIVE Find(_, _, _)
Find(out, c, i) ==
    IF i > Len(out) THEN 0
    ELSE IF out[i] = c THEN i
    ELSE Find(out, c, i + 1)

StartsWith(out, i, piece) ==
    /\ i + Len(piece) - 1 <= Len(out)
    /\ SubSeq(out, i, i + Len(piece) - 1) = piece

\* out[i..] read as a sequence of items: a source byte ("text": literal, or
\* decoded from an entity), an open or close tag of the seven names, or "bad"
\* for a literal <, >, & or " that is neither.  Reading stops at a bad item.
RECURSIVE Items(_, _)
Items(out, i) ==
    IF i > Len(out) THEN <<>>
    ELSE IF out[i] = "<"
    THEN LET j == Find(out, ">", i)
             inner == SubSeq(out, i + 1, j - 1)
         IN  IF j = 0 THEN <<[k |-> "bad", v |-> <<>>]>>
             ELSE IF inner \in TagNames
             THEN <<[k |-> "open", v |-> inner]>> \o Items(out, j + 1)
             ELSE IF inner # <<>> /\ inner[1] = "/" /\ Tail(inner) \in TagNames
             THEN <<[k |-> "close", v |-> Tail(inner)]>> \o Items(out, j + 1)
             ELSE <<[k |-> "bad", v |-> <<>>]>>
    ELSE IF out[i] = "&"
    THEN LET hit == {e \in Entities : StartsWith(out, i, e.as)}
         IN  IF hit = {} THEN <<[k |-> "bad", v |-> <<>>]>>
             ELSE LET e == CHOOSE x \in hit : TRUE
                  IN  <<[k |-> "text", v |-> <<e.of>>]>> \o Items(out, i + Len(e.as))
    ELSE IF out[i] \in {">", "\""} THEN <<[k |-> "bad", v |-> <<>>]>>
    ELSE <<[k |-> "text", v |-> <<out[i]>>]>> \o Items(out, i + 1)

RECURSIVE TextOf(_)
TextOf(items) ==
    IF items = <<>> THEN <<>>
    ELSE (IF Head(items).k = "text" THEN Head(items).v ELSE <<>>) \o TextOf(Tail(items))

\* No literal <, >, & or " outside the fixed markup and the four entities
NoBad(items) == items = <<>> \/ items[Len(items)].k # "bad"

WellEscaped(out) == NoBad(Items(out, 1))

\* The markup removed and the entities decoded
Decoded(out) == TextOf(Items(out, 1))

TagsOf(items) == SelectSeq(items, LAMBDA x : x.k \in {"open", "close"})

MarkupOf(out) == TagsOf(Items(out, 1))

\* The name of the tag left open after the markup m, <<>> when none is,
\* <<"!">> when m opens a tag inside a tag or closes one that is not open
RECURSIVE OpenAfter(_, _)
OpenAfter(m, n) ==
    IF n = 0 THEN <<>>
    ELSE LET before == OpenAfter(m, n - 1)
         IN  IF before = <<"!">> THEN before
             ELSE IF m[n].k = "open"
             THEN (IF before = <<>> THEN m[n].v ELSE <<"!">>)
             ELSE (IF before = m[n].v THEN <<>> ELSE <<"!">>)

-----------------------------------------------------------------------------
(* Claims *)

\* C1: when highlight returns from a source with at least one token, the output
\* with the markup removed and the four entities decoded is the whole source,
\* whatever trivia lies before, between and after the tokens.
C1_Partition ==
    (pc = "done" /\ lexed # <<>>) => WellEscaped(buf) /\ Decoded(buf) = source

\* C2: the tag markup highlight emits is balanced: reading any output so far,
\* no tag opens inside another, every close tag closes the tag opened last, the
\* tag left open is the one of the open kind, and none is left open on return.
C2_Balance ==
    LET items == Items(buf, 1)
        markup == TagsOf(items)
    IN  /\ NoBad(items)
        /\ OpenAfter(markup, Len(markup)) = (IF pc = "done" THEN <<>> ELSE TagOf(open))

\* highlight has returned an output with two runs under different tags
C2_Witness ==
    /\ pc = "done"
    /\ Len(MarkupOf(buf)) >= 4
    /\ MarkupOf(buf)[1].v # MarkupOf(buf)[3].v

\* C3: no <, >, & or " of the source reaches the output literally: the only
\* literal < and > are those of the fixed tags, every & starts one of the four
\* entities, and decoding gives back the source bytes emitted so far.
C3_Escaping ==
    LET items == Items(buf, 1)
    IN  /\ NoBad(items)
        /\ TextOf(items) = Slice(source, 0, last)

\* highlight has returned the escaped text of a source of three different
\* escaped characters, part of it inside a tag
C3_Witness ==
    /\ pc = "done"
    /\ last = Len(source)
    /\ Len(source) = 3
    /\ Cardinality({source[n] : n \in 1..3} \cap {"<", ">", "&", "\""}) = 3
    /\ MarkupOf(buf) # <<>>

Min(a, b) == IF a <= b THEN a ELSE b

\* What a call of next took from the upstream
Consumed == Len(parent) - Len(parent')

\* C4 as stated: a call of next consumes 3 upstream events for a recognized
\* code block and 1 event in the passthrough case and in the diagnostic case.
C4_AsStated ==
    [][/\ ret' = "block" => Consumed = 3
       /\ ret' \in {"passthrough", "diagnostic"} => Consumed = 1]_vars

\* C4 amended: a call of next consumes 3 upstream events for a recognized code
\* block, 1 event in the passthrough case, and in the diagnostic case the start
\* and the two events after it: 3 events, or all that are left when fewer are.
C4_Consumption ==
    [][/\ ret' = "block" => Consumed = 3
       /\ ret' = "passthrough" => Consumed = 1
       /\ ret' = "diagnostic" => Consumed = Min(3, Len(parent))]_vars

\* The first call of next ended in the diagnostic and took three events
C4_Witness ==
    /\ ret = "diagnostic"
    /\ Len(yielded) = 1
    /\ Len(doc) - Len(parent) = 3

\* Every fenced start of d is followed by a text and a code-block end
WellFormed(d) ==
    \A i \in 1..Len(d) :
        d[i].type = "StartFenced" =>
            /\ i + 2 <= Len(d)
            /\ d[i + 1].type = "Text"
            /\ d[i + 2].type = "EndCodeBlock"

FencedBefore(d, i) == Cardinality({b \in 1..(i - 1) : d[b].type = "StartFenced"})

\* d[i] is the text or the end of a fenced block
InsideBlock(d, i) ==
    \/ i > 1 /\ d[i - 1].type = "StartFenced"
    \/ i > 2 /\ d[i - 2].type = "StartFenced"

\* C5: over a document whose fenced starts are each followed by (text, end),
\* the preprocessor yields every event outside a fenced block unchanged and in
\* order, one Html event in place of each fenced block, n - 2k events in all;
\* an indented code-block start is passed through like any other event.
C5_Passthrough ==
    (WellFormed(doc) /\ parent = <<>>) =>
        /\ Len(yielded) = Len(doc) - 2 * FencedBefore(doc, Len(doc) + 1)
        /\ \A i \in 1..Len(doc) :
             ~InsideBlock(doc, i) =>
                LET out == yielded[i - 2 * FencedBefore(doc, i)]
                IN  IF doc[i].type = "StartFenced" THEN out.type = "Html"
                    ELSE out = doc[i]

\* A document of an indented start and a fenced block has been gone through
C5_Witness ==
    /\ WellFormed(doc)
    /\ parent = <<>>
    /\ Len(doc) = 4
    /\ FencedBefore(doc, 5) = 1
    /\ \E i \in 1..4 : doc[i] = StartIndented
    /\ Len(yielded) = 2

\* The upstream starts with a fenced start not followed by (text, end)
Malformed(p) ==
    /\ p # <<>>
    /\ p[1].type = "StartFenced"
    /\ ~(Len(p) >= 3 /\ p[2].type = "Text" /\ p[3].type = "EndCodeBlock")

EventAt(p, i) == IF i <= Len(p) THEN p[i] ELSE NONE

\* C6: a call of next on a fenced start not followed by (text, end) yields one
\* Text event that carries the two events found, does not end the sequence,
\* and leaves every event after those two in the upstream; the calls after it
\* go on yielding one event each as long as the upstream has events.
C6_Recovery ==
    [][/\ Malformed(parent) =>
            /\ ret' = "diagnostic"
            /\ yielded' = Append(yielded,
                    Text(UnexpectedEvents(EventAt(parent, 2), EventAt(parent, 3))))
            /\ parent' = SubSeq(parent, 4, Len(parent))
       /\ (ret = "diagnostic" /\ parent # <<>>) =>
            /\ Len(yielded') = Len(yielded) + 1
            /\ \E n \in {1, 3} : parent' = SubSeq(parent, n + 1, Len(parent))]_vars

\* After a diagnostic for a start followed by two events, the event behind
\* them has been yielded by the next call
C6_Witness ==
    /\ Len(doc) = 4
    /\ Malformed(doc)
    /\ Len(yielded) = 2
    /\ yielded[1].type = "Text"
    /\ yielded[1].text[1] = "Unexpected events "
    /\ yielded[2] = doc[4]
    /\ parent = <<>>

\* The escape of 4.3, byte by byte
EscapeByte(b) ==
    CASE b = "<" -> <<"&", "l", "t", ";">>
      [] b = ">" -> <<"&", "g", "t", ";">>
      [] b = "&" -> <<"&", "a", "m", "p", ";">>
      [] b = "\"" -> <<"&", "q", "u", "o", "t", ";">>
      [] OTHER -> <<b>>

RECURSIVE EscapeBytes(_)
EscapeBytes(str) ==
    IF str = <<>> THEN <<>> ELSE EscapeByte(Head(str)) \o EscapeBytes(Tail(str))

RecognizedTags ==
    {Str_rust, Str_rs, Str_js, Str_javascript, Str_toml, Str_sh, Str_shell, Str_bash}

LanguageOf(lang) ==
    CASE lang \in {Str_rust, Str_rs} -> "Rust"
      [] lang \in {Str_js, Str_javascript} -> "JavaScript"
      [] lang = Str_toml -> "Toml"
      [] lang \in {Str_sh, Str_shell, Str_bash} -> "Sh"

Container(lang, body) == PreCodeOpen \o lang \o <<"\"", ">">> \o body \o PreCodeClose

\* C7: without the math capability, the code of a well-formed fenced block
\* goes through a tokenizer exactly when its tag is one of rust, rs, js,
\* javascript, toml, sh, shell, bash; under any other tag the Html payload is
\* the opening container, the escaped code text without markup, and the
\* closing container.
C7_Dispatch ==
    [][ret' = "block" /\ Len(yielded') = Len(yielded) + 1 =>
        LET lang == parent[1].lang
            code == parent[2].text
            html == yielded'[Len(yielded')].text
        IN  IF lang \in RecognizedTags
            THEN html = Container(lang, highlight(LanguageOf(lang), code, <<>>))
            ELSE html = Container(lang, EscapeBytes(code))]_vars

\* Blocks have been rendered: one under the tag Rust, escaped and without
\* markup, or one under a recognized tag, with markup
C7_Witness ==
    /\ ret = "block"
    /\ doc[1].type = "StartFenced"
    /\ Len(yielded) = 1
    /\ doc[1].lang = <<"R", "u", "s", "t">>
    /\ yielded[1].text = Container(doc[1].lang, EscapeBytes(doc[2].text))
    /\ Find(doc[2].text, "<", 1) > 0

HasEscaped(str) == \E n \in 1..Len(str) : str[n] \in {"<", ">", "&", "\""}

\* C9: write_escaped appends to the buffer the bytes of part in order, each of
\* <, >, &, " as its entity and every other byte as itself; what the buffer
\* held stays in front, and a part without the four is appended as it is.
C9_EscapeMapping ==
    [][pc' = "escaped" =>
        /\ s' = s \o EscapeBytes(part)
        /\ ~HasEscaped(part) => s' = s \o part]_vars

\* A part with a non-ASCII byte and two escaped characters has been appended
\* to a buffer that held a byte
C9_Witness ==
    /\ pc = "escaped"
    /\ Len(part) = 3
    /\ \E n \in 1..3 : part[n] = "xC3"
    /\ Cardinality({part[n] : n \in 1..3} \cap {"<", ">", "&", "\""}) = 2
    /\ Len(s) > 10

ClaimedTag(kind) ==
    CASE kind = "None" -> <<>>
      [] kind = "Glyph" -> <<"u">>
      [] kind = "Literal" -> <<"s", "p", "a", "n">>
      [] kind = "Identifier" -> <<"v", "a", "r">>
      [] kind = "SpecialIdentifier" -> <<"e", "m">>
      [] kind = "StrongIdentifier" -> <<"s", "t", "r", "o", "n", "g">>
      [] kind = "Keyword" -> <<"b">>
      [] kind = "Comment" -> <<"i">>

\* C10: the table has an entry for each of the 8 kinds, none for None and
\* pairwise different names u, span, var, em, strong, b, i for the others, and
\* the tag a run was opened with is the one it is closed with: the tag open in
\* the output is always the one claimed for the open kind.
C10_TagTable ==
    /\ DOMAIN HIGHLIGHT_TAG = {KindIndex(k) : k \in Kind}
    /\ \A k \in Kind : HIGHLIGHT_TAG[KindIndex(k)] = ClaimedTag(k)
    /\ \A k1, k2 \in Kind : TagOf(k1) = TagOf(k2) => k1 = k2
    /\ LET markup == MarkupOf(buf)
       IN  OpenAfter(markup, Len(markup)) = (IF pc = "done" THEN <<>> ELSE ClaimedTag(open))

\* highlight has returned an output with runs under three different tags
C10_Witness ==
    /\ pc = "done"
    /\ Len(MarkupOf(buf)) = 6
    /\ Cardinality({MarkupOf(buf)[n].v : n \in 1..6}) = 3

\* C11: whenever highlight has classified a token, slot 1 of the window holds
\* that token and slot 0 the token the tokenizer produced just before it, or
\* the sentinel when there was none, also when an error-valued token came in
\* the middle of the stream.
C11_Window ==
    pos >= 1 =>
        /\ tokens[2] = lexed[pos].tok
        /\ tokens[1] = (IF pos >= 2 THEN lexed[pos - 1].tok ELSE ERROR)

\* out[i..] with every <...> removed, the entities left as they are
RECURSIVE WithoutMarkup(_, _)
WithoutMarkup(out, i) ==
    IF i > Len(out) THEN <<>>
    ELSE IF out[i] = "<"
    THEN (IF Find(out, ">", i) = 0 THEN <<"<">> ELSE WithoutMarkup(out, Find(out, ">", i) + 1))
    ELSE <<out[i]>> \o WithoutMarkup(out, i + 1)

\* The end of the span of the last token of the stream, 0 for an empty stream
EndOfLastToken == IF lexed = <<>> THEN 0 ELSE lexed[Len(lexed)].end

\* C12: after highlight returns, the output without its tag markup is the
\* escape of source[0 .. end of the last token]: each of those bytes escaped
\* once and in order, no byte behind the last token, and nothing at all when
\* the tokenizer yielded no token.
C12_EmittedPrefix ==
    pc = "done" =>
        /\ WithoutMarkup(buf, 1) = EscapeBytes(Slice(source, 0, EndOfLastToken))
        /\ lexed = <<>> => buf = <<>>

\* highlight has returned from a source with trivia before and after its one
\* token, the token and the trivia behind it being escaped characters
C12_Witness ==
    /\ pc = "done"
    /\ Len(lexed) = 1
    /\ lexed[1].start > 0
    /\ lexed[1].end < Len(source)
    /\ HasEscaped(Slice(source, lexed[1].start, lexed[1].end))
    /\ HasEscaped(Slice(source, lexed[1].end, Len(source)))
    /\ buf # <<>>

ClaimedOpen(kind) ==
    IF ClaimedTag(kind) = <<>> THEN <<>> ELSE <<"<">> \o ClaimedTag(kind) \o <<">">>

ClaimedClose(kind) ==
    IF ClaimedTag(kind) = <<>> THEN <<>> ELSE <<"<", "/">> \o ClaimedTag(kind) \o <<">">>

IsPrefix(a, b) == Len(a) <= Len(b) /\ SubSeq(b, 1, Len(a)) = a

\* A step that is one iteration of the loop of highlight, the token it handles
\* and the trivia between the cursor and that token
TokenStep == pc = "loop" /\ pc' = "loop" /\ pos' = pos + 1
StepToken == lexed'[pos']
StepTrivia == Slice(source, last, StepToken.start)

\* A token whose kind differs from the open kind, the open kind having a tag,
\* with trivia in front of it
ChangeWithTrivia ==
    /\ TokenStep
    /\ open' # open
    /\ ClaimedTag(open) # <<>>
    /\ StepTrivia # <<>>

\* C13 as stated: on a change of kind away from a kind with a tag, the trivia
\* between the previous token and this one is emitted inside the tag of the run
\* being closed, before its close tag.
C13_AsStated ==
    [][ChangeWithTrivia =>
        IsPrefix(buf \o EscapeBytes(StepTrivia) \o ClaimedClose(open), buf')]_vars

\* C13 amended: on a change of kind away from a kind with a tag, the trivia
\* between the previous token and this one is emitted after the close tag of
\* the run being closed and before the open tag of the run being opened,
\* inside neither tag.
C13_TriviaOutside ==
    [][ChangeWithTrivia =>
        IsPrefix(buf \o ClaimedClose(open) \o EscapeBytes(StepTrivia)
                     \o ClaimedOpen(open'), buf')]_vars

\* The output holds a close tag, then text, then an open tag
C13_Witness ==
    LET items == Items(buf, 1)
    IN  \E n \in 1..(Len(items) - 2) :
            /\ items[n].k = "close"
            /\ items[n + 1].k = "text"
            /\ items[n + 2].k = "open"

\* C14: for a token whose kind differs from the open kind highlight appends,
\* in this order, the close tag of the open kind, the escaped trivia from the
\* cursor to the token's start, the open tag of the new kind and the escaped
\* token text; for a token of the open kind it appends the escaped bytes from
\* the cursor to the token's end and no markup; either way the cursor is then
\* the token's end and the open kind the token's kind.
C14_EmissionOrder ==
    [][TokenStep =>
        LET kind == classify'[tokens']
        IN  /\ open' = kind
            /\ last' = StepToken.end
            /\ buf' = IF kind # open
                      THEN buf \o ClaimedClose(open) \o EscapeBytes(StepTrivia)
                               \o ClaimedOpen(kind)
                               \o EscapeBytes(Slice(source, StepToken.start, StepToken.end))
                      ELSE buf \o EscapeBytes(Slice(source, last, StepToken.end))]_vars

\* Two tokens with trivia between them have been emitted, the first on a change
\* of kind and the second under the kind left open
C14_Witness ==
    /\ pc = "loop"
    /\ pos = 2
    /\ lexed[2].start > lexed[1].end
    /\ open # "None"
    /\ Len(MarkupOf(buf)) = 1
    /\ HasEscaped(source)

\* C15: over token streams with non-empty, increasing spans inside the source,
\* every iteration of highlight has 0 <= cursor <= token start <= token end
\* <= length of the source, and the cursor never decreases: every slice taken
\* from the source is in range, error tokens included.
C15_InRange ==
    [][TokenStep =>
        /\ 0 <= last
        /\ last <= StepToken.start
        /\ StepToken.start <= StepToken.end
        /\ StepToken.end <= Len(source)
        /\ last <= last'
        /\ last' <= Len(source)]_vars

\* highlight has returned from a stream of adjacent tokens, an error token
\* among them, that reaches the end of a source of escaped characters
C15_Witness ==
    /\ pc = "done"
    /\ Len(lexed) >= 2
    /\ \E n \in 1..Len(lexed) : lexed[n].tok = ERROR
    /\ lexed[2].start = lexed[1].end
    /\ last = Len(source)
    /\ HasEscaped(source)

OpensIn(markup) == Len(SelectSeq(markup, LAMBDA x : x.k = "open"))

\* No close tag is immediately followed by an open tag of the same name
NoReopening(items) ==
    \A n \in 1..(Len(items) - 1) :
        (items[n].k = "close" /\ items[n + 1].k = "open") => items[n].v # items[n + 1].v

\* C16: a token of the open kind is emitted into the run left open, with the
\* trivia before it and without markup; an open tag is emitted only for a token
\* whose kind differs from the open kind and is not None, one per such token;
\* and no close tag is immediately followed by an open tag of the same name.
C16_RunMaximality ==
    [][TokenStep =>
        LET before == Items(buf, 1)
            after == Items(buf', 1)
        IN  /\ OpensIn(TagsOf(after)) - OpensIn(TagsOf(before))
                 = (IF open' # open /\ open' # "None" THEN 1 ELSE 0)
            /\ open' = open => TagsOf(after) = TagsOf(before)
            /\ NoReopening(after)]_vars

\* highlight has returned one tag pair around two tokens of one kind and the
\* trivia between them
C16_Witness ==
    /\ pc = "done"
    /\ Len(lexed) = 2
    /\ lexed[2].start > lexed[1].end
    /\ open # "None"
    /\ Len(MarkupOf(buf)) = 2

\* C17: over a tokenizer that yields finitely many tokens, highlight makes one
\* loop iteration per token and then returns; and a call of next takes at most
\* 3 events from the upstream and leaves the rest of it as it was.
C17_Termination ==
    /\ [](pc = "loop" => <>(pc = "done"))
    /\ [](pc = "done" => pos = Len(lexed))
    /\ [][(pc = "loop" /\ pc' = "loop") =>
            /\ pos' = pos + 1
            /\ pos' <= Len(lexed')
            /\ Len(lexed') <= Len(lexed) + 1]_vars
    /\ [][pc = "events" =>
            \E n \in 0..3 : parent' = SubSeq(parent, n + 1, Len(parent))]_vars

\* The second call of highlight has returned after three iterations
C17_Witness ==
    /\ run = 2
    /\ pc = "done"
    /\ pos = 3
    /\ Len(lexed) = 3

\* The tag of the fenced starts and the code of the texts of the document
DocLang == (CHOOSE e \in {doc[n] : n \in 1..Len(doc)} : e.type = "StartFenced").lang
DocCode == (CHOOSE e \in {doc[n] : n \in 1..Len(doc)} : e.type = "Text").text

ClaimedOpening ==
    <<"<", "p", "r", "e", ">", "<", "c", "o", "d", "e", " ", "c", "l", "a", "s", "s",
      "=", "\"", "l", "a", "n", "g", "u", "a", "g", "e", "-">>
ClaimedClosing == <<"<", "/", "c", "o", "d", "e", ">", "<", "/", "p", "r", "e", ">">>

IsSuffix(a, b) == Len(a) <= Len(b) /\ SubSeq(b, Len(b) - Len(a) + 1, Len(b)) = a

\* The payload is the opening, the tag as received, the two bytes ">, a body
\* in which every byte is escaped, and the closing
TagVerbatim(lang, html) ==
    LET front == ClaimedOpening \o lang \o <<"\"", ">">>
    IN  /\ IsPrefix(front, html)
        /\ IsSuffix(ClaimedClosing, html)
        /\ Len(front) + Len(ClaimedClosing) <= Len(html)
        /\ WellEscaped(SubSeq(html, Len(front) + 1, Len(html) - Len(ClaimedClosing)))

\* A step of next that returns the Html event of a well-formed block
BlockStep == ret' = "block" /\ Len(yielded') = Len(yielded) + 1

\* C19 as stated: the payload of every well-formed fenced block starts with
\* <pre><code class="language- and the tag's bytes as received, unescaped, then
\* ">, and ends with </code></pre>. A build with latex2mathml returns the
\* converted math for the tags math and mathblock, without the container.
C19_AsStated ==
    [][BlockStep => TagVerbatim(parent[1].lang, yielded'[Len(yielded')].text)]_vars

\* C19: unless the build has the math capability and the tag is math or
\* mathblock, the payload of a well-formed fenced block starts with
\* <pre><code class="language- and the tag's bytes as received, unescaped, then
\* ">, and ends with </code></pre>; between them are the escaped bytes of the
\* code text.
C19_TagVerbatim ==
    [][(BlockStep /\ ~(feature /\ parent[1].lang \in {Str_math, Str_mathblock})) =>
            TagVerbatim(parent[1].lang, yielded'[Len(yielded')].text)]_vars

\* A block whose tag holds a quote and a < has been rendered by a build with
\* the math capability
C19_Witness ==
    /\ feature
    /\ ret = "block"
    /\ doc[1] = StartFenced(<<"a", "\"", "<">>)
    /\ Len(yielded) = 1
    /\ yielded[1].type = "Html"

\* C20: a call of next returns end-of-sequence exactly when the upstream has
\* no event left for its first pull, and then yields nothing; a fenced start
\* that is the last or the second-to-last upstream event makes the call pull
\* twice more all the same and yield the Text event that carries the two
\* results (the event found or None, then None), leaving the upstream empty;
\* the call after it returns end-of-sequence.
C20_EndOfStream ==
    [][pc = "events" =>
        /\ (ret' = "end") <=> (parent = <<>>)
        /\ parent = <<>> => yielded' = yielded
        /\ (parent # <<>> /\ parent[1].type = "StartFenced" /\ Len(parent) <= 2) =>
              /\ ret' = "diagnostic"
              /\ parent' = <<>>
              /\ yielded' = Append(yielded,
                     Text(UnexpectedEvents(EventAt(parent, 2), NONE)))
        /\ (ret = "diagnostic" /\ parent = <<>>) => ret' = "end"]_vars

\* The upstream ended in a fenced start: the diagnostic was yielded, and the
\* call after it has ended the sequence
C20_Witness ==
    /\ Len(doc) >= 2
    /\ doc[Len(doc)].type = "StartFenced"
    /\ parent = <<>>
    /\ ret = "end"
    /\ yielded # <<>>
    /\ yielded[Len(yielded)] = Text(UnexpectedEvents(NONE, NONE))

====
